---- MODULE Spec2Model ----
(***************************************************************************)
(* Pineapple replica core (src/src/pineapple/pineapple.go): the ABD-style  *)
(* fast register (Get/Set) and the RMWGet/RMWSet log path, driven by the   *)
(* single event loop of every replica, plus the execute worker that        *)
(* replies to RMW clients.                                                *)
(***************************************************************************)
EXTENDS Integers, Sequences, FiniteSets

VARIABLES
    N,              \* r.N: cluster size (fixed after construction)
    Alive,          \* r.Alive[q]: peers flagged reachable by the substrate
    IsLeader,       \* r.IsLeader of every replica
    data,           \* r.data: key -> payload of every replica
    instanceSpace,  \* r.instanceSpace of every replica
    crtInstance,    \* r.crtInstance
    crtRmwId,       \* r.crtRmwId
    rmwDoneUpTo,    \* r.rmwDoneUpTo
    pendingRMWs,    \* r.pendingRMWs: rmwId -> slot of the stored instance, or NoSlot
    onOffProposeChan, \* TRUE when the proposal inbox of the replica is switched on
    crashed,        \* the replica process has panicked
    msgs,           \* messages sent and not yet handled
    env,            \* the deployment's surroundings: client proposals left and where they go, whom the master promotes
    hist            \* per proposal: what the client and an observer of the stores have seen

vars == <<N, Alive, IsLeader, data, instanceSpace, crtInstance, crtRmwId,
          rmwDoneUpTo, pendingRMWs, onOffProposeChan, crashed, msgs, env, hist>>

-----------------------------------------------------------------------------
(* Bounds of the model *)

MaxProposals == 2

\* The largest timestamp of the tags over which isLargerTag is compared exhaustively.
MaxTs == 2

-----------------------------------------------------------------------------
(* Program constants *)

PREPARING == 0

PREPARED == 1

ACCEPTED == 2

COMMITTED == 3

GET == "GET"

PUT == "PUT"

RMW == "RMW"

Ops == {GET, PUT, RMW}

Dreply == TRUE

\* Values a client writes with PUT (Command.V); GET and RMW carry 0.
PutValues == {7}

Replicas == 0 .. (N - 1)

\* The keys clients use (Command.K).
Keys == {1}

\* The slots of instanceSpace the workloads can reach (at most 2 * MaxProposals proposals).
Slots == 0 .. (2 * MaxProposals - 1)

NoSlot == -1

defaultBallot == 0

Majority(n) == n \div 2 \* r.N>>1

-----------------------------------------------------------------------------
(* Tags and payloads *)

ZeroTag == [ts |-> 0, id |-> 0]

\* A payload that is not the zero Payload.
NonEmptyPayload == [tag |-> [ts |-> 1, id |-> 0], value |-> 1]

EmptyPayload == [tag |-> ZeroTag, value |-> 0]

\* The total order on tags stated by the data model: (ts, id) lexicographic.
TagLess(a, b) == a.ts < b.ts \/ (a.ts = b.ts /\ a.id < b.id)

TagLeq(a, b) == a = b \/ TagLess(a, b)

\* A comparison that never finds the received tag newer.
neverLargerTag(r, currentTag, receivedTag) == FALSE

isLargerTag(r, currentTag, receivedTag) ==
    IF receivedTag.ts > currentTag.ts THEN TRUE
    ELSE IF receivedTag.ts = currentTag.ts
         THEN IF currentTag.id = receivedTag.id THEN FALSE
              ELSE IF IsLeader[r] /\ currentTag.id = r THEN TRUE
              ELSE currentTag.id < receivedTag.id
         ELSE FALSE

\* r.data[key] as Go reads it: the zero Payload when the key is absent.
Absent == [exists |-> FALSE, tag |-> ZeroTag, value |-> 0]

Stored(p) == [exists |-> TRUE, tag |-> p.tag, value |-> p.value]

ReadData(d, r, k) == [tag |-> d[r][k].tag, value |-> d[r][k].value]

-----------------------------------------------------------------------------
(* Instances and messages *)

NoCmd == [op |-> "NONE", k |-> 0, v |-> 0]

NoLb == [exists |-> FALSE, clientProposals |-> FALSE, hasMaxTag |-> {},
         getOKs |-> 0, setOKs |-> 0, getDone |-> FALSE,
         rmwGetOKs |-> 0, rmwSetOKs |-> 0, rmwGetDone |-> FALSE,
         nacks |-> 0, completed |-> FALSE]

NoInstance == [exists |-> FALSE, cmds |-> NoCmd, initialTag |-> ZeroTag, rmwId |-> 0,
               receivedRMW |-> EmptyPayload, receivedData |-> <<>>,
               receivedRMWData |-> <<>>, ballot |-> 0, status |-> PREPARING,
               lb |-> NoLb]

\* &LeaderBookkeeping{hasMaxTag: map{}, clientProposals: proposals, ...}
NewLb == [NoLb EXCEPT !.exists = TRUE, !.clientProposals = TRUE]

Msg(type, from, to, instance, write, key, payload, ballot, cmds) ==
    [type |-> type, from |-> from, to |-> to, instance |-> instance, write |-> write,
     key |-> key, payload |-> payload, ballot |-> ballot, cmds |-> cmds, copy |-> 0]

\* What is recorded about the proposal placed in a slot: the command; the tag and value
\* minted for it (PUT, RMW); the number of ProposeReply messages sent, and at the first
\* of them the coordinator's stored payload, whether the optimized-read path sent it,
\* how many replicas then stored a tag >= the minted one, and which proposals had
\* already been answered; the proposals already answered when it was submitted, and
\* whether its coordinator then had no payload for the key; the payload every replica
\* then stored for the key, when all stored the same one and no message was in flight.
NoPre == [uniform |-> FALSE, tag |-> ZeroTag, value |-> 0]

NoHist == [proposed |-> FALSE, op |-> "NONE", key |-> 0, value |-> 0, fresh |-> FALSE,
           pre |-> NoPre,
           hasMinted |-> FALSE, minted |-> ZeroTag, mintedValue |-> 0,
           replies |-> 0, replyTag |-> ZeroTag, replyValue |-> 0, optimized |-> FALSE,
           holders |-> 0, doneBefore |-> {}, doneAtReply |-> {}, setsSent |-> 0,
           mergedTag |-> ZeroTag]

\* Replicas whose store holds, for key k, a tag at least t.
Holders(d, k, t) == {q \in Replicas : d[q][k].exists /\ TagLeq(t, d[q][k].tag)}

Running(r) == r \in Replicas /\ Alive[r] /\ ~crashed[r]

\* The payload all replicas store for key k, when they agree and the network is empty.
PreState(k) ==
    IF msgs = {} /\ data[0][k].exists /\ \A q \in Replicas : data[q][k] = data[0][k]
    THEN [uniform |-> TRUE, tag |-> data[0][k].tag, value |-> data[0][k].value]
    ELSE NoPre

-----------------------------------------------------------------------------
(* Initial state: NewReplica on every replica, no client traffic yet *)

\* left: proposals clients still submit; quota: how many of them each replica may be
\* handed; ops: the operation kinds the clients of each replica use; leaders: the
\* replicas the master may promote;
\* closedLoop: clients wait for the reply to a proposal before submitting the next one
\* (one client with one outstanding request, the load generator's default).
Env(left, quota, ops, leaders, closedLoop) ==
    [left |-> left, quota |-> quota, ops |-> ops, leaders |-> leaders,
     closedLoop |-> closedLoop]

InitWith(n, alive, cl) ==
    /\ N = n
    /\ Alive = [q \in 0 .. (n - 1) |-> q \in alive]
    /\ IsLeader = [r \in 0 .. (n - 1) |-> FALSE]
    /\ data = [r \in 0 .. (n - 1) |-> [k \in Keys |-> Absent]]
    /\ instanceSpace = [r \in 0 .. (n - 1) |-> [i \in Slots |-> NoInstance]]
    /\ crtInstance = [r \in 0 .. (n - 1) |-> 0]
    /\ crtRmwId = [r \in 0 .. (n - 1) |-> 0]
    /\ rmwDoneUpTo = [r \in 0 .. (n - 1) |-> -1]
    /\ pendingRMWs = [r \in 0 .. (n - 1) |-> [j \in Slots |-> NoSlot]]
    /\ onOffProposeChan = [r \in 0 .. (n - 1) |-> TRUE]
    /\ crashed = [r \in 0 .. (n - 1) |-> FALSE]
    /\ msgs = {}
    /\ env = cl
    /\ hist = [r \in 0 .. (n - 1) |-> [i \in Slots |-> NoHist]]

-----------------------------------------------------------------------------
(* Broadcasts *)

\* Peers bcastGet and bcastSet visit: every live replica but self and replica 0.
RegisterPeers(r) == {q \in Replicas : q # r /\ Alive[q] /\ q # 0}

\* Peers bcastRMWGet and bcastRMWSet visit: every live replica but self.
LogPeers(r) == {q \in Replicas : q # r /\ Alive[q]}

bcastGet(r, instance, write, key, d) ==
    {Msg("Get", r, q, instance, write, key,
         IF write THEN EmptyPayload ELSE ReadData(d, r, key), 0, NoCmd) :
        q \in RegisterPeers(r)}

\* A propagate phase that reaches nobody.
bcastSetNone(r, instance, write, key, payload, hasMaxTag) == {}

bcastSet(r, instance, write, key, payload, hasMaxTag) ==
    {Msg("Set", r, q, instance, write, key, payload, 0, NoCmd) :
        q \in RegisterPeers(r) \ hasMaxTag}

\* A log-path discovery sent as register-path traffic.
bcastRMWGetAsGet(r, instance, ballot, command) ==
    {Msg("Get", r, q, instance, TRUE, command.k, EmptyPayload, ballot, command) :
        q \in {p \in Replicas : p # r /\ Alive[p]}}

bcastRMWGet(r, instance, ballot, command) ==
    {Msg("RMWGet", r, q, instance, FALSE, command.k, EmptyPayload, ballot, command) :
        q \in LogPeers(r)}

\* A propagate phase of the log path under a ballot below every ballot in use.
bcastRMWSetStale(r, instance, ballot, key, cmds, payload) ==
    {Msg("RMWSet", r, q, instance, FALSE, key, payload, ballot - 1, cmds) :
        q \in {p \in Replicas : p # r /\ Alive[p]}}

bcastRMWSet(r, instance, ballot, key, cmds, payload) ==
    {Msg("RMWSet", r, q, instance, FALSE, key, payload, ballot, cmds) :
        q \in LogPeers(r)}

-----------------------------------------------------------------------------
(* Client replies *)

\* A reply guard that does not look at the completed flag.
CanReplyIgnoringCompleted(inst) == inst.lb.clientProposals /\ Dreply

\* The guard of replyClient and of the reply in executeRMWs.
CanReply(inst) == inst.lb.clientProposals /\ Dreply /\ ~inst.lb.completed

DoneOps == {<<q, i>> \in Replicas \X Slots : hist[q][i].replies > 0}

\* ReplyProposeTS as the client and an observer of all stores see it.
Replied(h, d, r, optimized) ==
    IF h.replies > 0 THEN [h EXCEPT !.replies = @ + 1]
    ELSE [h EXCEPT !.replies = 1,
                   !.replyTag = d[r][h.key].tag,
                   !.replyValue = d[r][h.key].value,
                   !.optimized = optimized,
                   !.holders = Cardinality(Holders(d, h.key, h.minted)),
                   !.doneAtReply = DoneOps]

\* replyClient(instance) on replica r once its store is d: the new instance and history.
replyClient(inst, h, d, r, optimized) ==
    IF CanReply(inst)
    THEN [inst |-> [inst EXCEPT !.lb.completed = TRUE], hist |-> Replied(h, d, r, optimized)]
    ELSE [inst |-> inst, hist |-> h]

-----------------------------------------------------------------------------
(* handlePropose, with the gate the event loop closes after it *)

\* A first tag that does not name the replica.
DefaultTagNoId(r) == ZeroTag

\* pineappleproto.Tag{Timestamp: 0, ID: int(r.Id)}: the tag a GET installs for a key
\* its coordinator has never seen.
DefaultTag(r) == [ts |-> 0, id |-> r]

\* An event loop that leaves its proposal inbox on.
GateLeftOpen(r) == onOffProposeChan

\* onOffProposeChan = nil, after handlePropose returns.
GateAfterPropose(r) == [onOffProposeChan EXCEPT ![r] = FALSE]

\* A slot choice without the forward scan.
CurrentSlot(r) == crtInstance[r]

\* for r.instanceSpace[r.crtInstance] != nil { r.crtInstance++ }
FirstEmpty(r) ==
    CHOOSE i \in Slots :
        /\ i >= crtInstance[r]
        /\ ~instanceSpace[r][i].exists
        /\ \A j \in Slots : (j >= crtInstance[r] /\ j < i) => instanceSpace[r][j].exists

handlePropose(r, op, key, v) ==
    /\ Running(r)
    /\ onOffProposeChan[r]
    /\ env.left > 0
    /\ env.closedLoop => \A q \in Replicas, i \in Slots : hist[q][i].proposed => hist[q][i].replies > 0
    /\ env.quota[r] > 0
    /\ op \in env.ops[r]
    /\ LET instNo == FirstEmpty(r)
           cmd == [op |-> op, k |-> key, v |-> v]
           h == [NoHist EXCEPT !.proposed = TRUE, !.op = op, !.key = key, !.value = v,
                               !.fresh = ~data[r][key].exists, !.pre = PreState(key),
                               !.doneBefore = DoneOps]
       IN  /\ crtInstance' = [crtInstance EXCEPT ![r] = instNo]
           /\ hist' = [hist EXCEPT ![r][instNo] = h]
           /\ IF op # PUT /\ op # GET
              THEN /\ instanceSpace' = [instanceSpace EXCEPT ![r][instNo] =
                          [NoInstance EXCEPT !.exists = TRUE, !.rmwId = crtRmwId[r],
                                             !.cmds = cmd, !.ballot = 0,
                                             !.status = PREPARING,
                                             !.lb = [NoLb EXCEPT !.exists = TRUE,
                                                                 !.clientProposals = TRUE]]]
                   /\ crtRmwId' = [crtRmwId EXCEPT ![r] = @ + 1]
                   /\ msgs' = msgs \cup bcastRMWGet(r, instNo, 0, cmd)
                   /\ data' = data
              ELSE /\ crtRmwId' = crtRmwId
                   /\ IF op = PUT
                      THEN /\ instanceSpace' = [instanceSpace EXCEPT ![r][instNo] =
                                  [NoInstance EXCEPT !.exists = TRUE, !.cmds = cmd,
                                                     !.status = PREPARING, !.lb = NewLb]]
                           /\ data' = data
                           /\ msgs' = msgs \cup bcastGet(r, instNo, TRUE, key, data)
                      ELSE LET d == IF data[r][key].exists THEN data
                                    ELSE [data EXCEPT ![r][key] =
                                            Stored([tag |-> DefaultTag(r), value |-> 0])]
                           IN  /\ data' = d
                               /\ instanceSpace' = [instanceSpace EXCEPT ![r][instNo] =
                                      [NoInstance EXCEPT !.exists = TRUE, !.cmds = cmd,
                                                         !.status = PREPARING, !.lb = NewLb,
                                                         !.initialTag = d[r][key].tag]]
                               /\ msgs' = msgs \cup bcastGet(r, instNo, FALSE, key, d)
    /\ onOffProposeChan' = GateAfterPropose(r)
    /\ env' = [env EXCEPT !.left = @ - 1, !.quota[r] = @ - 1]
    /\ UNCHANGED <<N, Alive, IsLeader, rmwDoneUpTo, pendingRMWs, crashed>>

\* case <-clockChan: the proposal inbox is switched back on.
ClockTick(r) ==
    /\ Running(r)
    /\ ~onOffProposeChan[r]
    /\ onOffProposeChan' = [onOffProposeChan EXCEPT ![r] = TRUE]
    /\ UNCHANGED <<N, Alive, IsLeader, data, instanceSpace, crtInstance, crtRmwId,
                   rmwDoneUpTo, pendingRMWs, crashed, msgs, env, hist>>

BeTheLeader(r) ==
    /\ Running(r)
    /\ r \in env.leaders
    /\ ~IsLeader[r]
    /\ IsLeader' = [IsLeader EXCEPT ![r] = TRUE]
    /\ UNCHANGED <<N, Alive, data, instanceSpace, crtInstance, crtRmwId,
                   rmwDoneUpTo, pendingRMWs, onOffProposeChan, crashed, msgs, env, hist>>

\* The replies of the two paths.
ReplyTypes == {"GetReply", "SetReply", "RMWGetReply", "RMWSetReply"}

\* The connection delivers a reply in flight twice: two copies replace it in the inbox
\* of the coordinator (a reply is doubled at most once); the handlers do not read copy.
Duplicate(m) ==
    /\ m \in msgs /\ m.type \in ReplyTypes /\ m.copy = 0
    /\ msgs' = (msgs \ {m}) \cup {[m EXCEPT !.copy = 1], [m EXCEPT !.copy = 2]}
    /\ UNCHANGED <<N, Alive, IsLeader, data, instanceSpace, crtInstance, crtRmwId,
                   rmwDoneUpTo, pendingRMWs, onOffProposeChan, crashed, env, hist>>

-----------------------------------------------------------------------------
(* Fast register: Get / GetReply / Set / SetReply handlers *)

RegisterFrame == UNCHANGED <<N, Alive, IsLeader, crtInstance, crtRmwId, rmwDoneUpTo,
                             pendingRMWs, onOffProposeChan, env>>

\* A handler dereferences inst.lb of the slot a reply names: nil panics the process.
Deref(r, i) == instanceSpace[r][i].exists /\ instanceSpace[r][i].lb.exists

Panic(r, m) ==
    /\ crashed' = [crashed EXCEPT ![r] = TRUE]
    /\ msgs' = msgs \ {m}
    /\ UNCHANGED <<data, instanceSpace, hist>>

handleGet(m) ==
    /\ m \in msgs /\ m.type = "Get" /\ Running(m.to)
    /\ LET r == m.to
           cur == data[r][m.key]
           adopt == ~m.write /\ (~cur.exists \/ isLargerTag(r, cur.tag, m.payload.tag))
           payload == IF m.write THEN EmptyPayload
                      ELSE IF adopt THEN m.payload
                      ELSE [tag |-> cur.tag, value |-> cur.value]
       IN  /\ data' = IF adopt THEN [data EXCEPT ![r][m.key] = Stored(m.payload)] ELSE data
           /\ msgs' = (msgs \ {m}) \cup
                  {Msg("GetReply", r, m.from, m.instance, m.write, m.key, payload, 0, NoCmd)}
    /\ UNCHANGED <<instanceSpace, crashed, hist>>
    /\ RegisterFrame

\* The majority tests of the register path: oks + 1 > N>>1.
GetMajority(getOKs) == getOKs + 1 > Majority(N)

SetMajority(setOKs, hasMaxTag) ==
    \/ (setOKs + 1 > Cardinality(hasMaxTag) /\ Cardinality(hasMaxTag) < Majority(N))
    \/ setOKs + 1 > Majority(N)

\* A discovery guard that never reports the phase closed.
GetNeverClosed(inst) == FALSE

\* if inst.lb.getDone { return }
GetClosed(inst) == inst.lb.getDone

\* A mint that keeps the timestamp it found.
MintPutSameTs(r, cur, cmd) == [tag |-> [ts |-> cur.tag.ts, id |-> r], value |-> cur.value]

\* The payload a PUT stores and broadcasts when its discovery closes.
MintPut(r, cur, cmd) == [tag |-> [ts |-> cur.tag.ts + 1, id |-> r], value |-> cur.value]

handleGetReply(m) ==
    /\ m \in msgs /\ m.type = "GetReply" /\ Running(m.to)
    /\ LET r == m.to
           i == m.instance
           key == m.key
           inst == instanceSpace[r][i]
       IN  IF ~Deref(r, i) THEN Panic(r, m)
           ELSE IF GetClosed(inst)
           THEN /\ msgs' = msgs \ {m}
                /\ UNCHANGED <<data, instanceSpace, crashed, hist>>
           ELSE
           LET rd == Append(inst.receivedData, [from |-> m.from, payload |-> m.payload])
               d1 == IF isLargerTag(r, data[r][key].tag, m.payload.tag)
                     THEN [data EXCEPT ![r][key] = Stored(m.payload)]
                     ELSE data
               oks == inst.lb.getOKs + 1
           IN  IF ~GetMajority(oks)
               THEN /\ data' = d1
                    /\ instanceSpace' = [instanceSpace EXCEPT ![r][i] =
                           [inst EXCEPT !.receivedData = rd, !.lb.getOKs = oks]]
                    /\ msgs' = msgs \ {m}
                    /\ UNCHANGED <<crashed, hist>>
               ELSE
               LET ownTag == d1[r][key].tag
                   firstReceivedTag == rd[1].payload.tag
                   same == {j \in 1 .. Len(rd) : rd[j].payload.tag = firstReceivedTag}
                   hasMax == inst.lb.hasMaxTag \cup
                             {rd[j].from : j \in {x \in 1 .. Len(rd) : rd[x].payload.tag = ownTag}}
                   identicalCount ==
                       Cardinality(same) +
                       (IF inst.initialTag = firstReceivedTag
                           \/ isLargerTag(r, inst.initialTag, firstReceivedTag)
                        THEN 1 ELSE 0)
                   receivedDataCount == Len(rd)
                   inst1 == [inst EXCEPT !.receivedData = <<>>, !.lb.getOKs = oks,
                                         !.lb.hasMaxTag = hasMax, !.lb.getDone = TRUE]
               IN  IF ~m.write /\ identicalCount = receivedDataCount + 1
                   THEN LET res == replyClient(inst1, hist[r][i], d1, r, TRUE)
                        IN  /\ data' = d1
                            /\ instanceSpace' = [instanceSpace EXCEPT ![r][i] = res.inst]
                            /\ hist' = [hist EXCEPT ![r][i] = res.hist]
                            /\ msgs' = msgs \ {m}
                            /\ UNCHANGED crashed
                   ELSE LET inst2 == [inst1 EXCEPT !.status = PREPARED, !.lb.nacks = 0]
                            d2 == IF m.write
                                  THEN [d1 EXCEPT ![r][key] =
                                           Stored(MintPut(r, d1[r][key], inst.cmds))]
                                  ELSE d1
                            out == bcastSet(r, i, m.write, key, ReadData(d2, r, key), hasMax)
                        IN  /\ data' = d2
                            /\ instanceSpace' = [instanceSpace EXCEPT ![r][i] = inst2]
                            /\ hist' = [hist EXCEPT ![r][i] =
                                   IF m.write
                                   THEN [@ EXCEPT !.hasMinted = TRUE,
                                                  !.minted = d2[r][key].tag,
                                                  !.mintedValue = d2[r][key].value,
                                                  !.setsSent = Cardinality(out)]
                                   ELSE [@ EXCEPT !.setsSent = Cardinality(out)]]
                            /\ msgs' = (msgs \ {m}) \cup out
                            /\ UNCHANGED crashed
    /\ RegisterFrame

handleSet(m) ==
    /\ m \in msgs /\ m.type = "Set" /\ Running(m.to)
    /\ LET r == m.to
       IN  /\ data' = IF isLargerTag(r, data[r][m.key].tag, m.payload.tag)
                      THEN [data EXCEPT ![r][m.key] = Stored(m.payload)]
                      ELSE data
           /\ msgs' = (msgs \ {m}) \cup
                  {Msg("SetReply", r, m.from, m.instance, FALSE, 0, EmptyPayload, 0, NoCmd)}
    /\ UNCHANGED <<instanceSpace, crashed, hist>>
    /\ RegisterFrame

handleSetReply(m) ==
    /\ m \in msgs /\ m.type = "SetReply" /\ Running(m.to)
    /\ LET r == m.to
           i == m.instance
           inst == instanceSpace[r][i]
       IN  IF ~Deref(r, i) THEN Panic(r, m)
           ELSE
           LET inst1 == [inst EXCEPT !.lb.setOKs = @ + 1]
               res == IF SetMajority(inst1.lb.setOKs, inst1.lb.hasMaxTag)
                      THEN replyClient(inst1, hist[r][i], data, r, FALSE)
                      ELSE [inst |-> inst1, hist |-> hist[r][i]]
           IN  /\ instanceSpace' = [instanceSpace EXCEPT ![r][i] = res.inst]
               /\ hist' = [hist EXCEPT ![r][i] = res.hist]
               /\ msgs' = msgs \ {m}
               /\ UNCHANGED <<data, crashed>>
    /\ RegisterFrame

-----------------------------------------------------------------------------
(* Log path: RMWGet / RMWGetReply / RMWSet / RMWSetReply handlers *)

LogFrame == UNCHANGED <<N, Alive, IsLeader, crtInstance, crtRmwId, onOffProposeChan, env>>

handleRMWGet(m) ==
    /\ m \in msgs /\ m.type = "RMWGet" /\ Running(m.to)
    /\ LET r == m.to
           i == m.instance
           key == m.cmds.k
           inst == instanceSpace[r][i]
       IN  IF (~inst.exists /\ m.ballot < defaultBallot) \/ (inst.exists /\ m.ballot < inst.ballot)
           THEN Panic(r, m)
           ELSE /\ instanceSpace' = [instanceSpace EXCEPT ![r][i] =
                       IF ~inst.exists
                       THEN [NoInstance EXCEPT !.exists = TRUE, !.cmds = m.cmds,
                                               !.ballot = m.ballot, !.status = ACCEPTED]
                       ELSE [inst EXCEPT !.cmds = m.cmds,
                                         !.status = IF @ # COMMITTED THEN ACCEPTED ELSE @]]
                /\ msgs' = (msgs \ {m}) \cup
                       {Msg("RMWGetReply", r, m.from, i, FALSE, key,
                            IF ~inst.exists THEN EmptyPayload ELSE ReadData(data, r, key),
                            defaultBallot, NoCmd)}
                /\ UNCHANGED <<data, crashed, hist>>
    /\ UNCHANGED <<rmwDoneUpTo, pendingRMWs>>
    /\ LogFrame

\* for _, data := range receivedRMWData { if isLargerTag(r.data[key].Tag, data.Tag) { r.data[key] = reply } }
RECURSIVE MergeRMWData(_, _, _, _)
MergeRMWData(r, cur, received, reply) ==
    IF received = <<>> THEN cur
    ELSE MergeRMWData(r,
                      IF isLargerTag(r, cur.tag, Head(received).tag) THEN reply ELSE cur,
                      Tail(received), reply)

\* The payload an RMW stores and broadcasts when its discovery closes.
MintRMW(r, cur) == [tag |-> [ts |-> cur.tag.ts + 1, id |-> r], value |-> cur.value + 1]

RMWMajority(oks) == oks + 1 > Majority(N)

\* A discovery guard of the log path that never reports the phase closed.
RMWGetNeverClosed(inst) == FALSE

\* if inst.lb.rmwGetDone { return }
RMWGetClosed(inst) == inst.lb.rmwGetDone

handleRMWGetReply(m) ==
    /\ m \in msgs /\ m.type = "RMWGetReply" /\ Running(m.to)
    /\ LET r == m.to
           i == m.instance
           key == m.key
           inst == instanceSpace[r][i]
       IN  IF ~Deref(r, i) THEN Panic(r, m)
           ELSE IF RMWGetClosed(inst)
           THEN /\ msgs' = msgs \ {m}
                /\ UNCHANGED <<data, instanceSpace, crashed, hist>>
           ELSE
           LET rd == Append(inst.receivedRMWData, m.payload)
               oks == inst.lb.rmwGetOKs + 1
           IN  IF ~RMWMajority(oks)
               THEN /\ instanceSpace' = [instanceSpace EXCEPT ![r][i] =
                           [inst EXCEPT !.receivedRMWData = rd, !.lb.rmwGetOKs = oks]]
                    /\ msgs' = msgs \ {m}
                    /\ UNCHANGED <<data, crashed, hist>>
               ELSE
               LET merged == MergeRMWData(r, ReadData(data, r, key), rd, m.payload)
                   new == MintRMW(r, merged)
                   d2 == [data EXCEPT ![r][key] = Stored(new)]
                   inst1 == [inst EXCEPT !.receivedRMWData = <<>>, !.lb.rmwGetOKs = oks,
                                         !.lb.rmwGetDone = TRUE, !.lb.nacks = 0]
               IN  /\ data' = d2
                   /\ instanceSpace' = [instanceSpace EXCEPT ![r][i] = inst1]
                   /\ hist' = [hist EXCEPT ![r][i] =
                          [@ EXCEPT !.hasMinted = TRUE, !.minted = new.tag,
                                    !.mintedValue = new.value,
                                    !.mergedTag = merged.tag]]
                   /\ msgs' = (msgs \ {m}) \cup
                          bcastRMWSet(r, i, m.ballot, key, inst1.cmds, new)
                   /\ UNCHANGED crashed
    /\ UNCHANGED <<rmwDoneUpTo, pendingRMWs>>
    /\ LogFrame

handleRMWSet(m) ==
    /\ m \in msgs /\ m.type = "RMWSet" /\ Running(m.to)
    /\ LET r == m.to
           i == m.instance
           inst == instanceSpace[r][i]
       IN  IF (~inst.exists /\ m.ballot < defaultBallot) \/ (inst.exists /\ inst.ballot > m.ballot)
           THEN Panic(r, m)
           ELSE
           LET inst1 == IF ~inst.exists
                        THEN [NoInstance EXCEPT !.exists = TRUE, !.cmds = m.cmds,
                                                !.ballot = m.ballot, !.status = ACCEPTED]
                        ELSE IF inst.ballot < m.ballot
                        THEN [inst EXCEPT !.cmds = m.cmds, !.ballot = m.ballot,
                                          !.status = ACCEPTED]
                        ELSE [inst EXCEPT !.cmds = m.cmds,
                                          !.status = IF @ # COMMITTED THEN ACCEPTED ELSE @]
           IN  /\ instanceSpace' = [instanceSpace EXCEPT ![r][i] =
                      [inst1 EXCEPT !.receivedRMW = m.payload]]
               /\ data' = IF isLargerTag(r, data[r][m.key].tag, m.payload.tag)
                          THEN [data EXCEPT ![r][m.key] = Stored(m.payload)]
                          ELSE data
               /\ msgs' = (msgs \ {m}) \cup
                      {Msg("RMWSetReply", r, m.from, i, FALSE, 0, EmptyPayload,
                           defaultBallot, NoCmd)}
               /\ UNCHANGED <<crashed, hist>>
    /\ UNCHANGED <<rmwDoneUpTo, pendingRMWs>>
    /\ LogFrame

handleRMWSetReply(m) ==
    /\ m \in msgs /\ m.type = "RMWSetReply" /\ Running(m.to)
    /\ LET r == m.to
           i == m.instance
           inst == instanceSpace[r][i]
       IN  IF ~Deref(r, i)
           THEN Panic(r, m) /\ UNCHANGED <<rmwDoneUpTo, pendingRMWs>>
           ELSE
           LET oks == inst.lb.rmwSetOKs + 1
           IN  /\ instanceSpace' = [instanceSpace EXCEPT ![r][i].lb.rmwSetOKs = oks]
               /\ IF RMWMajority(oks)
                  THEN /\ rmwDoneUpTo' = [rmwDoneUpTo EXCEPT ![r] = @ + 1]
                       /\ pendingRMWs' = [pendingRMWs EXCEPT ![r][inst.rmwId] = i]
                  ELSE UNCHANGED <<rmwDoneUpTo, pendingRMWs>>
               /\ msgs' = msgs \ {m}
               /\ UNCHANGED <<data, crashed, hist>>
    /\ LogFrame

\* One pass of the inner loop of executeRMWs; its index i is never advanced.
executeRMWs(r) ==
    /\ Running(r)
    /\ 0 <= rmwDoneUpTo[r]
    /\ LET slot == pendingRMWs[r][0]
       IN  IF slot = NoSlot
           THEN /\ crashed' = [crashed EXCEPT ![r] = TRUE]
                /\ UNCHANGED <<instanceSpace, hist>>
           ELSE /\ CanReply(instanceSpace[r][slot])
                /\ instanceSpace' = [instanceSpace EXCEPT ![r][slot].lb.completed = TRUE]
                /\ hist' = [hist EXCEPT ![r][slot] = Replied(@, data, r, FALSE)]
                /\ UNCHANGED crashed
    /\ UNCHANGED <<N, Alive, IsLeader, data, crtInstance, crtRmwId, rmwDoneUpTo,
                   pendingRMWs, onOffProposeChan, msgs, env>>

-----------------------------------------------------------------------------
(* Specifications *)

\* The event loop of a deployment on the register path (GET and PUT).
NextRegister ==
    \/ \E r \in Replicas, k \in Keys : handlePropose(r, GET, k, 0)
    \/ \E r \in Replicas, k \in Keys, v \in PutValues : handlePropose(r, PUT, k, v)
    \/ \E m \in msgs : handleGet(m)
    \/ \E m \in msgs : handleGetReply(m)
    \/ \E m \in msgs : handleSet(m)
    \/ \E m \in msgs : handleSetReply(m)

\* The log path and the execute worker.
NextLog ==
    \/ \E r \in Replicas, k \in Keys : handlePropose(r, RMW, k, 0)
    \/ \E m \in msgs : handleRMWGet(m)
    \/ \E m \in msgs : handleRMWGetReply(m)
    \/ \E m \in msgs : handleRMWSet(m)
    \/ \E m \in msgs : handleRMWSetReply(m)
    \/ \E r \in Replicas : executeRMWs(r)

\* The control hook of the master.
NextLeader == \E r \in Replicas : BeTheLeader(r)

\* The clock producer.
NextClock == \E r \in Replicas : ClockTick(r)

\* Duplicate delivery of replies.
NextDuplicate == \E m \in msgs : Duplicate(m)

Next == NextRegister \/ NextLog \/ NextLeader \/ NextClock

\* Three replicas, all reachable; the master may promote replica 0; one closed-loop
\* client submits MaxProposals operations: any operation to replica 0, GETs and PUTs to
\* replica 1, RMWs to replica 2.
Init == InitWith(3, {0, 1, 2},
                 Env(MaxProposals, [r \in {0, 1, 2} |-> MaxProposals],
                     [r \in {0, 1, 2} |-> IF r = 0 THEN Ops
                                           ELSE IF r = 1 THEN {GET, PUT} ELSE {RMW}],
                     {0}, TRUE))

Spec == Init /\ [][Next]_vars

\* Three replicas; the master may promote replica 1; one closed-loop client submits
\* GETs and PUTs, up to MaxProposals to replica 0 and up to MaxProposals to replica 1.
InitElect == InitWith(3, {0, 1, 2},
                      Env(MaxProposals + MaxProposals,
                          [r \in {0, 1, 2} |-> IF r = 2 THEN 0 ELSE MaxProposals],
                          [r \in {0, 1, 2} |-> {GET, PUT}], {1}, TRUE))

SpecElect == InitElect /\ [][NextRegister \/ NextClock \/ NextLeader]_vars

\* Five replicas, all reachable, never promoted; one closed-loop client reads at
\* replica 1 and writes at replica 2, in either order. Every replica is handed at most
\* one proposal, so its proposal inbox never has to be switched on again.
InitFive == InitWith(5, {0, 1, 2, 3, 4},
                     Env(MaxProposals,
                         [r \in {0, 1, 2, 3, 4} |-> IF r \in {1, 2} THEN 1 ELSE 0],
                         [r \in {0, 1, 2, 3, 4} |-> IF r = 2 THEN {PUT} ELSE {GET}],
                         {}, TRUE))

SpecFive == InitFive /\ [][NextRegister]_vars

\* Three replicas of which replica 2 is unreachable; clients submit to replicas 0 and 1
\* without waiting for replies.
InitDown == InitWith(3, {0, 1},
                     Env(MaxProposals, [r \in {0, 1, 2} |-> IF r = 2 THEN 0 ELSE 1],
                         [r \in {0, 1, 2} |-> Ops], {0}, FALSE))

SpecDown == InitDown /\ [][Next]_vars

\* Three replicas, all reachable, never promoted; two clients submit one RMW each,
\* concurrently, to replica 0 and to replica 1 (one proposal per replica: the proposal
\* inbox never has to be switched on again).
InitConcurrent == InitWith(3, {0, 1, 2},
                           Env(MaxProposals, [r \in {0, 1, 2} |-> IF r = 2 THEN 0 ELSE 1],
                               [r \in {0, 1, 2} |-> {RMW}], {}, FALSE))

SpecConcurrent == InitConcurrent /\ [][NextLog]_vars

\* Three replicas, all reachable, never promoted; two clients submit concurrently, one
\* a PUT to replica 0, the other any operation to replica 1 (one proposal per replica:
\* the proposal inbox never has to be switched on again).
InitRace == InitWith(3, {0, 1, 2},
                     Env(MaxProposals, [r \in {0, 1, 2} |-> IF r = 2 THEN 0 ELSE 1],
                         [r \in {0, 1, 2} |-> IF r = 0 THEN {PUT} ELSE Ops],
                         {}, FALSE))

SpecRace == InitRace /\ [][NextRegister \/ NextLog]_vars

\* Four replicas of which replica 0 is unreachable, none promoted; one closed-loop
\* client submits up to two RMWs to replica 1 and one GET or PUT to replica 2.
InitMint == InitWith(4, {1, 2, 3},
                     Env(MaxProposals + 1,
                         [r \in {0, 1, 2, 3} |-> IF r = 1 THEN 2 ELSE IF r = 2 THEN 1 ELSE 0],
                         [r \in {0, 1, 2, 3} |-> IF r = 1 THEN {RMW} ELSE {GET, PUT}],
                         {}, TRUE))

SpecMint == InitMint /\ [][NextRegister \/ NextLog \/ NextClock]_vars

\* Four replicas, all reachable, none promoted; replies may be delivered twice; one
\* closed-loop client submits one GET or PUT to replica 1 and one to replica 2.
InitDuplicate == InitWith(4, {0, 1, 2, 3},
                          Env(MaxProposals,
                              [r \in {0, 1, 2, 3} |-> IF r \in {1, 2} THEN 1 ELSE 0],
                              [r \in {0, 1, 2, 3} |-> {GET, PUT}], {}, TRUE))

SpecDuplicate == InitDuplicate /\ [][NextRegister \/ NextDuplicate]_vars

\* Four replicas, all reachable, none promoted; two clients submit, without waiting
\* for each other, one GET or PUT to replica 1 and one to replica 2.
InitRead == InitWith(4, {0, 1, 2, 3},
                     Env(MaxProposals,
                         [r \in {0, 1, 2, 3} |-> IF r \in {1, 2} THEN 1 ELSE 0],
                         [r \in {0, 1, 2, 3} |-> {GET, PUT}], {}, FALSE))

SpecRead == InitRead /\ [][NextRegister]_vars

-----------------------------------------------------------------------------
(* Properties *)

Proposed == {o \in Replicas \X Slots : hist[o[1]][o[2]].proposed}

H(o) == hist[o[1]][o[2]]

Quiescent == msgs = {} /\ \A r \in Replicas : Alive[r] => ~crashed[r]

\* The execute worker of replica r has no reply it can send.
WorkerIdle(r) ==
    \/ rmwDoneUpTo[r] < 0
    \/ /\ pendingRMWs[r][0] # NoSlot
       /\ ~CanReply(instanceSpace[r][pendingRMWs[r][0]])

\* C1: every assignment to a replica's key store stores a tag greater than or equal to
\* the tag stored before for that key, in the (ts, id) order: stored tags never regress.
C1_TagsNeverRegress ==
    [][\A r \in Replicas, k \in Keys :
          data[r][k].exists => TagLeq(data[r][k].tag, data'[r][k].tag)]_vars

\* C2: a GET proposed after a PUT has replied holds, when it replies, a tag >= the tag
\* that PUT minted; a GET proposed after a GET has replied holds a tag >= that GET's.
C2_ReadsSeeCompletedOps ==
    \A g \in Proposed :
        (H(g).op = GET /\ H(g).replies > 0) =>
            \A p \in H(g).doneBefore :
                H(p).key = H(g).key =>
                    /\ H(p).op = PUT => TagLeq(H(p).minted, H(g).replyTag)
                    /\ H(p).op = GET => TagLeq(H(p).replyTag, H(g).replyTag)

\* C3: when the client reply of a PUT or an RMW is sent, strictly more than N/2
\* replicas store for the key a tag >= the tag minted for the operation.
C3_QuorumStoresMintedTag ==
    \A o \in Proposed :
        (H(o).op \in {PUT, RMW} /\ H(o).replies > 0) => 2 * H(o).holders > N

\* C4: at most one ProposeReply is sent for a proposal, whatever late or extra
\* acknowledgements arrive, and an instance marked completed has had exactly one.
C4_AtMostOneReply ==
    \A r \in Replicas, i \in Slots :
        /\ hist[r][i].replies <= 1
        /\ (instanceSpace[r][i].lb.exists /\ instanceSpace[r][i].lb.completed)
               => hist[r][i].replies = 1

\* A PUT and an RMW of one coordinator have both been answered once, and each has
\* since received a second acknowledgement of its second phase.
C4_Witness ==
    \E r \in Replicas, i, j \in Slots :
        /\ hist[r][i].op = PUT /\ hist[r][i].replies = 1
        /\ instanceSpace[r][i].lb.setOKs = 2
        /\ hist[r][j].op = RMW /\ hist[r][j].replies = 1
        /\ instanceSpace[r][j].lb.rmwSetOKs = 2

\* C5: when a GET is answered through the optimized-read path, no PUT or RMW that has
\* already been answered minted a tag greater than the tag the coordinator then stores.
C5_OptimizedReadSound ==
    \A g \in Proposed :
        (H(g).op = GET /\ H(g).replies > 0 /\ H(g).optimized) =>
            \A p \in H(g).doneAtReply :
                (H(p).key = H(g).key /\ H(p).op \in {PUT, RMW}) =>
                    TagLeq(H(p).minted, H(g).replyTag)

\* C6: the payload a PUT stores and broadcasts when its discovery closes carries the
\* value of the client's command, and so does the coordinator's store when it replies.
C6_PutBindsValue ==
    \A o \in Proposed :
        (H(o).op = PUT /\ H(o).hasMinted) =>
            /\ H(o).mintedValue = H(o).value
            /\ H(o).replies > 0 => H(o).replyValue = H(o).value

\* C7: of two RMWs on a key that are the only proposals, the second proposed after the
\* first replied, the second mints a strictly greater tag and the first's value plus 1.
C7_SequentialRMWs ==
    \A b \in Proposed :
        (H(b).op = RMW /\ H(b).hasMinted /\ Cardinality(Proposed) = 2) =>
            \A a \in H(b).doneBefore :
                (H(a).op = RMW /\ H(a).key = H(b).key) =>
                    /\ TagLess(H(a).minted, H(b).minted)
                    /\ H(b).mintedValue = H(a).mintedValue + 1

\* C8: of two concurrent RMWs on a key at different coordinators that observed the same
\* pre-tag (and so minted the same timestamp), at most one is answered ok=true.
C8_AtMostOneSucceeds ==
    \A a, b \in Proposed :
        (/\ a[1] # b[1]
         /\ H(a).op = RMW /\ H(b).op = RMW /\ H(a).key = H(b).key
         /\ H(a).hasMinted /\ H(b).hasMinted
         /\ H(a).mergedTag = H(b).mergedTag
         /\ a \notin H(b).doneBefore /\ b \notin H(a).doneBefore)
        => ~(H(a).replies > 0 /\ H(b).replies > 0)

\* C9: with three live replicas, once every message sent has been handled, every GET
\* and every PUT that a coordinator accepted has been answered.
C9_RegisterOpsAnswered ==
    (N = 3 /\ Quiescent /\ \A r \in Replicas : Alive[r]) =>
        \A o \in Proposed : H(o).op \in {GET, PUT} => H(o).replies > 0

\* C10: with replica 2 unreachable, once every message sent has been handled, a PUT
\* that replica 0 accepted for a key it had never seen has been answered.
C10_PutSurvivesMinorityFailure ==
    (N = 3 /\ ~Alive[2] /\ Quiescent) =>
        \A i \in Slots :
            (hist[0][i].proposed /\ hist[0][i].op = PUT /\ hist[0][i].fresh)
                => hist[0][i].replies > 0

\* C11: once no message is in flight and the execute worker has nothing left to send,
\* every RMW whose RMWSet acknowledgements reached a majority has a client reply.
C11_CommittedRMWAnswered ==
    \A o \in Proposed :
        (/\ H(o).op = RMW
         /\ Quiescent /\ Running(o[1]) /\ WorkerIdle(o[1])
         /\ Deref(o[1], o[2])
         /\ RMWMajority(instanceSpace[o[1]][o[2]].lb.rmwSetOKs))
        => H(o).replies > 0

\* C12: with three replicas, once a PUT that replica 0 accepted for a key it had never
\* seen, the only proposal, has been answered and no message is in flight, replica 0 and
\* replica 1 both store for the key a tag >= (1, 0).
C12_FreshPutReachesReplicaOne ==
    \A i \in Slots :
        (/\ N = 3 /\ \A q \in Replicas : Alive[q]
         /\ hist[0][i].op = PUT /\ hist[0][i].fresh
         /\ Proposed = {<<0, i>>}
         /\ hist[0][i].replies > 0
         /\ Quiescent)
        => \A q \in {0, 1} :
               /\ data[q][hist[0][i].key].exists
               /\ TagLeq([ts |-> 1, id |-> 0], data[q][hist[0][i].key].tag)

\* C13: when PUTs on one key were submitted concurrently at replica 0 and at replica 1,
\* then once both are answered and no message is in flight, replicas 0, 1 and 2 all
\* store the payload with the greater of the two minted tags.
C13_ConcurrentPutsConverge ==
    \A i, j \in Slots :
        (/\ N = 3
         /\ hist[0][i].op = PUT /\ hist[1][j].op = PUT
         /\ hist[0][i].key = hist[1][j].key
         /\ Proposed = {<<0, i>>, <<1, j>>}
         /\ <<0, i>> \notin hist[1][j].doneBefore /\ <<1, j>> \notin hist[0][i].doneBefore
         /\ hist[0][i].replies > 0 /\ hist[1][j].replies > 0
         /\ Quiescent)
        => LET a == hist[0][i]
               b == hist[1][j]
               w == IF TagLess(a.minted, b.minted) THEN b ELSE a
           IN  \A q \in Replicas :
                   /\ data[q][a.key].exists
                   /\ data[q][a.key].tag = w.minted
                   /\ data[q][a.key].value = w.mintedValue

\* C14: when every replica stores the same payload (t, v) for a key, no message is in
\* flight and one RMW on the key is submitted to replica 0, the client is answered and,
\* once no message is in flight, every replica stores value v + 1 with a tag above t.
C14_SingleRMWIncrements ==
    \A i \in Slots :
        (/\ N = 3 /\ env.closedLoop
         /\ hist[0][i].op = RMW /\ hist[0][i].pre.uniform
         /\ \A o \in Proposed : <<0, i>> \notin H(o).doneBefore
         /\ Quiescent /\ WorkerIdle(0))
        => /\ hist[0][i].replies > 0
           /\ \A q \in Replicas :
                  /\ data[q][hist[0][i].key].exists
                  /\ TagLess(hist[0][i].pre.tag, data[q][hist[0][i].key].tag)
                  /\ data[q][hist[0][i].key].value = hist[0][i].pre.value + 1

\* C15: when a PUT at replica 0 and an RMW at replica 1 on one key ran concurrently,
\* then once both are answered and no message is in flight, all three replicas store
\* one tag, minted by one of the two, with that operation's value (the PUT's client
\* value, or the RMW's incremented value).
C15_PutAndRMWAgree ==
    \A i, j \in Slots :
        (/\ N = 3
         /\ hist[0][i].op = PUT /\ hist[1][j].op = RMW
         /\ hist[0][i].key = hist[1][j].key
         /\ Proposed = {<<0, i>>, <<1, j>>}
         /\ <<0, i>> \notin hist[1][j].doneBefore /\ <<1, j>> \notin hist[0][i].doneBefore
         /\ hist[0][i].replies > 0 /\ hist[1][j].replies > 0
         /\ Quiescent /\ WorkerIdle(1))
        => LET a == hist[0][i]
               b == hist[1][j]
               k == a.key
           IN  \/ \A q \in Replicas : /\ data[q][k].exists
                                       /\ data[q][k].tag = a.minted
                                       /\ data[q][k].value = a.value
               \/ \A q \in Replicas : /\ data[q][k].exists
                                       /\ data[q][k].tag = b.minted
                                       /\ data[q][k].value = b.mintedValue

\* C16: a GetReply handled by a coordinator whose instance has getDone set is ignored:
\* the step only removes the message; it sends no Set, answers no client, and leaves
\* getOKs, setOKs, hasMaxTag, the instance status and the key store as they were.
C16_LateGetReplyIgnored ==
    [][\A m \in msgs :
          (/\ m.type = "GetReply" /\ m \notin msgs'
           /\ Deref(m.to, m.instance)
           /\ instanceSpace[m.to][m.instance].lb.getDone)
          => /\ msgs' = msgs \ {m}
             /\ hist' = hist
             /\ data' = data
             /\ instanceSpace' = instanceSpace]_vars

\* Replica 0's GET or PUT closed its discovery on the first of two replies, and the
\* second reply has been handled as well.
C16_Witness ==
    \E i \in Slots :
        /\ N = 3 /\ \A q \in Replicas : Alive[q] /\ ~crashed[q]
        /\ hist[0][i].op \in {GET, PUT}
        /\ Deref(0, i)
        /\ instanceSpace[0][i].lb.getDone
        /\ instanceSpace[0][i].lb.getOKs = 1
        /\ ~\E m \in msgs : /\ m.instance = i
                            /\ \/ m.type = "Get" /\ m.from = 0
                               \/ m.type = "GetReply" /\ m.to = 0

\* C17: in every step, at every replica, the status of an existing instance does not
\* move backward in the order PREPARING < PREPARED < ACCEPTED < COMMITTED.
C17_StatusMonotone ==
    [][\A r \in Replicas : \A i \in Slots :
          instanceSpace[r][i].exists
              => instanceSpace'[r][i].status >= instanceSpace[r][i].status]_vars

\* The second-phase messages of type t that coordinator r sends for slot i.
SecondPhase(set, t, r, i) == {m \in set : m.type = t /\ m.from = r /\ m.instance = i}

\* C18: for every coordinator instance, getDone and rmwGetDone never return to false;
\* Set messages are sent only in the step that sets getDone, RMWSet messages only in
\* the step that sets rmwGetDone, and a tag is minted only in such a step: so each
\* instance has at most one second-phase broadcast and at most one mint.
C18_DiscoveryClosesOnce ==
    [][\A r \in Replicas : \A i \in Slots :
          LET lb == instanceSpace[r][i].lb
              lbn == instanceSpace'[r][i].lb
              getCloses == Deref(r, i) /\ ~lb.getDone /\ lbn.getDone
              rmwGetCloses == Deref(r, i) /\ ~lb.rmwGetDone /\ lbn.rmwGetDone
          IN  /\ (Deref(r, i) /\ lb.getDone) => lbn.getDone
              /\ (Deref(r, i) /\ lb.rmwGetDone) => lbn.rmwGetDone
              /\ ~(SecondPhase(msgs', "Set", r, i) \subseteq msgs) => getCloses
              /\ ~(SecondPhase(msgs', "RMWSet", r, i) \subseteq msgs) => rmwGetCloses
              /\ (\/ hist'[r][i].hasMinted # hist[r][i].hasMinted
                  \/ hist'[r][i].minted # hist[r][i].minted
                  \/ hist'[r][i].mintedValue # hist[r][i].mintedValue)
                 => (getCloses \/ rmwGetCloses)]_vars

\* Replica 0 coordinated a PUT and an RMW; each closed its discovery on the first of
\* two replies, minted a tag, and has had its second reply handled.
C18_Witness ==
    \E i, j \in Slots :
        /\ N = 3 /\ \A q \in Replicas : Alive[q] /\ ~crashed[q]
        /\ hist[0][i].op = PUT /\ hist[0][j].op = RMW
        /\ hist[0][i].hasMinted /\ hist[0][j].hasMinted
        /\ Deref(0, i) /\ Deref(0, j)
        /\ instanceSpace[0][i].lb.getDone /\ instanceSpace[0][i].lb.getOKs = 1
        /\ instanceSpace[0][j].lb.rmwGetDone /\ instanceSpace[0][j].lb.rmwGetOKs = 1
        /\ ~\E m \in msgs : /\ m.type \in {"Get", "RMWGet"} /\ m.from = 0
        /\ ~\E m \in msgs : /\ m.type \in {"GetReply", "RMWGetReply"} /\ m.to = 0

\* C19: crtInstance never decreases, and a step that accepts a client proposal at
\* replica r fills exactly one slot: the lowest empty one at or after crtInstance; every
\* instance that existed at r, whoever created it, is left as it was.
C19_SlotAllocation ==
    [][\A r \in Replicas :
          /\ crtInstance'[r] >= crtInstance[r]
          /\ env'.quota[r] < env.quota[r]
             => \E i \in Slots :
                    /\ ~instanceSpace[r][i].exists
                    /\ instanceSpace'[r][i].exists /\ hist'[r][i].proposed
                    /\ i >= crtInstance[r] /\ crtInstance'[r] = i
                    /\ \A j \in Slots :
                           /\ (j >= crtInstance[r] /\ j < i) => instanceSpace[r][j].exists
                           /\ j # i => /\ instanceSpace'[r][j] = instanceSpace[r][j]
                                       /\ hist'[r][j] = hist[r][j]]_vars

\* A proposal sits in the slot after one that a peer's RMWGet or RMWSet created: the
\* scan has moved crtInstance past the occupied slot.
C19_Witness ==
    \E r \in Replicas : \E i, j \in Slots :
        /\ j < i
        /\ hist[r][i].proposed /\ crtInstance[r] = i
        /\ instanceSpace[r][j].exists /\ ~instanceSpace[r][j].lb.exists

\* C20: no two proposals on one key have minted the same tag.
C20_MintedTagsUnique ==
    \A o \in Proposed : \A p \in Proposed :
        (/\ o # p
         /\ H(o).hasMinted /\ H(p).hasMinted
         /\ H(o).key = H(p).key)
        => H(o).minted # H(p).minted

\* The tags with a timestamp up to MaxTs and the id of a replica.
TagPool == [ts : 0 .. MaxTs, id : Replicas]

\* C21: at every replica, leader or not, isLargerTag(current, received) is a strict
\* total order on tags (irreflexive, asymmetric, transitive, total on distinct tags)
\* and is the order current < received of (ts, id).
C21_IsLargerTagStrictOrder ==
    \A r \in Replicas : \A a \in TagPool : \A b \in TagPool :
        /\ ~isLargerTag(r, a, a)
        /\ ~(isLargerTag(r, a, b) /\ isLargerTag(r, b, a))
        /\ a # b => (isLargerTag(r, a, b) \/ isLargerTag(r, b, a))
        /\ isLargerTag(r, a, b) <=> TagLess(a, b)
        /\ \A c \in TagPool :
               (isLargerTag(r, a, b) /\ isLargerTag(r, b, c)) => isLargerTag(r, a, c)

\* The peers that have handled the Get of coordinator r for slot i.
GetHandledBy(r, i) ==
    {q \in RegisterPeers(r) :
        ~\E m \in msgs : m.type = "Get" /\ m.from = r /\ m.to = q /\ m.instance = i}

\* C22: also when a reply is delivered more than once, the discovery phase of a GET or
\* PUT has closed only if, with the coordinator, more than N/2 distinct replicas took
\* part: the distinct peers that can have replied number at least a majority less one.
C22_QuorumOfDistinctPeers ==
    \A r \in Replicas : \A i \in Slots :
        (Deref(r, i) /\ hist[r][i].op \in {GET, PUT} /\ instanceSpace[r][i].lb.getDone)
            => Cardinality(GetHandledBy(r, i)) + 1 > Majority(N)

\* C23: the instance table with its bookkeeping and the RMW progress counters are
\* written by the event loop only: no step of the execute worker changes them.
C23_EventLoopOwnsInstances ==
    [][\A r \in Replicas :
          executeRMWs(r) => UNCHANGED <<instanceSpace, rmwDoneUpTo, pendingRMWs>>]_vars

\* The replicas other than c that are marked alive.
LivePeers(c) == {q \in Replicas : q # c /\ Alive[q]}

\* C24: the step in which a replica c, whatever its id, accepts a GET or PUT sends a
\* Get for the new instance to every live replica other than c, and the step that
\* closes its discovery without answering the client sends a Set to every live replica
\* other than c that is not in hasMaxTag.
C24_BroadcastReachesLivePeers ==
    [][\A c \in Replicas : \A i \in Slots :
          /\ (~hist[c][i].proposed /\ hist'[c][i].proposed /\ hist'[c][i].op \in {GET, PUT})
             => {m.to : m \in SecondPhase(msgs', "Get", c, i)} = LivePeers(c)
          /\ (/\ Deref(c, i) /\ hist[c][i].op \in {GET, PUT}
              /\ ~instanceSpace[c][i].lb.getDone /\ instanceSpace'[c][i].lb.getDone
              /\ hist'[c][i].replies = hist[c][i].replies)
             => {m.to : m \in SecondPhase(msgs', "Set", c, i)}
                    = LivePeers(c) \ instanceSpace'[c][i].lb.hasMaxTag]_vars

\* C25: in the step that broadcasts the Set of a GET or PUT instance, every peer in
\* hasMaxTag stores for the key a tag greater than or equal to the tag the Set carries.
C25_SkippedPeersUpToDate ==
    [][\A c \in Replicas : \A i \in Slots :
          \A m \in SecondPhase(msgs', "Set", c, i) \ msgs :
              \A q \in instanceSpace'[c][i].lb.hasMaxTag :
                  /\ data'[q][m.key].exists
                  /\ TagLeq(m.payload.tag, data'[q][m.key].tag)]_vars

\* C26: a step in which a peer handles an RMWGet without rejecting its ballot sends an
\* RMWGetReply carrying the payload the peer stores for the command's key, whether or
\* not the slot held an instance before.
C26_RMWGetReplyCarriesStore ==
    [][\A m \in msgs :
          (m.type = "RMWGet" /\ m \notin msgs' /\ ~crashed'[m.to])
          => \A a \in msgs' \ msgs :
                 (a.type = "RMWGetReply" /\ a.from = m.to /\ a.instance = m.instance)
                 => a.payload = ReadData(data, m.to, m.cmds.k)]_vars

\* The tags the coordinator of slot i at r has before it when the reply m closes its
\* RMW discovery: its stored tag and the tags of all collected replies, m included.
TagsAtClose(r, i, m) ==
    {data[r][m.key].tag} \cup {m.payload.tag}
        \cup {instanceSpace[r][i].receivedRMWData[j].tag :
                 j \in 1 .. Len(instanceSpace[r][i].receivedRMWData)}

\* C27: in the step that closes the RMW discovery of an instance, the tag the
\* coordinator holds for the key just before minting is the greatest, in the (ts, id)
\* order, of its previous tag and the tags of all collected RMWGetReply payloads.
C27_RMWAdoptsMaxTag ==
    [][\A m \in msgs :
          (/\ m.type = "RMWGetReply" /\ m \notin msgs'
           /\ Deref(m.to, m.instance)
           /\ ~instanceSpace[m.to][m.instance].lb.rmwGetDone
           /\ instanceSpace'[m.to][m.instance].lb.rmwGetDone)
          => /\ hist'[m.to][m.instance].mergedTag \in TagsAtClose(m.to, m.instance, m)
             /\ \A t \in TagsAtClose(m.to, m.instance, m) :
                    TagLeq(t, hist'[m.to][m.instance].mergedTag)]_vars

\* C28: in the step that closes the RMW discovery of an instance, the coordinator
\* stores, and sends in every RMWSet, the payload with tag (h.ts + 1, own id) and value
\* h.value + 1, h being the payload it holds after merging the replies; and the new tag
\* is strictly greater than the tag it stored for the key before the step.
C28_RMWMint ==
    [][\A m \in msgs :
          (/\ m.type = "RMWGetReply" /\ m \notin msgs'
           /\ Deref(m.to, m.instance)
           /\ ~instanceSpace[m.to][m.instance].lb.rmwGetDone
           /\ instanceSpace'[m.to][m.instance].lb.rmwGetDone)
          => LET r == m.to
                 h == MergeRMWData(r, ReadData(data, r, m.key),
                                   Append(instanceSpace[r][m.instance].receivedRMWData,
                                          m.payload),
                                   m.payload)
                 new == [tag |-> [ts |-> h.tag.ts + 1, id |-> r], value |-> h.value + 1]
             IN  /\ data'[r][m.key] = Stored(new)
                 /\ \A a \in SecondPhase(msgs', "RMWSet", r, m.instance) : a.payload = new
                 /\ TagLess(data[r][m.key].tag, new.tag)]_vars

\* The tags the coordinator of slot i at r has before it when the reply m closes its
\* Get discovery: its stored tag and the tags of all collected replies, m included.
GetTagsAtClose(r, i, m) ==
    {data[r][m.key].tag} \cup {m.payload.tag}
        \cup {instanceSpace[r][i].receivedData[j].payload.tag :
                 j \in 1 .. Len(instanceSpace[r][i].receivedData)}

\* C29: in the step that closes the discovery of a PUT, the coordinator stores the tag
\* (ts + 1, own id), ts being the largest timestamp among its stored tag and the tags of
\* all collected replies, and that tag is strictly greater than each of these tags.
C29_PutMint ==
    [][\A m \in msgs :
          (/\ m.type = "GetReply" /\ m.write /\ m \notin msgs'
           /\ Deref(m.to, m.instance)
           /\ ~instanceSpace[m.to][m.instance].lb.getDone
           /\ instanceSpace'[m.to][m.instance].lb.getDone)
          => LET r == m.to
                 seen == GetTagsAtClose(r, m.instance, m)
                 top == CHOOSE t \in seen : \A u \in seen : u.ts <= t.ts
                 new == [ts |-> top.ts + 1, id |-> r]
             IN  /\ data'[r][m.key].exists /\ data'[r][m.key].tag = new
                 /\ hist'[r][m.instance].hasMinted /\ hist'[r][m.instance].minted = new
                 /\ \A a \in SecondPhase(msgs', "Set", r, m.instance) : a.payload.tag = new
                 /\ \A t \in seen : TagLess(t, new)]_vars

\* A PUT has minted a tag with a timestamp of at least 2: its coordinator stored a
\* minted tag already when the discovery closed.
C29_Witness ==
    \E r \in Replicas : \E i \in Slots :
        /\ hist[r][i].op = PUT /\ hist[r][i].hasMinted
        /\ hist[r][i].minted.ts >= 2 /\ hist[r][i].minted.id = r
        /\ instanceSpace[r][i].lb.getDone

\* C30: a step in which a peer handles a Get with write = false leaves the peer with
\* a stored tag for the key greater than or equal to the tag of the message, and sends
\* a GetReply carrying exactly the payload the peer stores after the step.
C30_ReadGetHandling ==
    [][\A m \in msgs :
          (m.type = "Get" /\ ~m.write /\ m \notin msgs')
          => /\ data'[m.to][m.key].exists
             /\ TagLeq(m.payload.tag, data'[m.to][m.key].tag)
             /\ \E a \in msgs' \ msgs :
                    /\ a.type = "GetReply" /\ a.from = m.to /\ a.to = m.from
                    /\ a.instance = m.instance /\ ~a.write /\ a.key = m.key
                    /\ a.payload = ReadData(data', m.to, m.key)
             /\ Cardinality(msgs' \ msgs) = 1]_vars

\* A peer answered a read Get with the payload it stores, whose tag is newer than the
\* one the coordinator sent: it kept its own payload instead of adopting the message's.
C30_Witness ==
    \E a \in msgs :
        /\ a.type = "GetReply" /\ ~a.write
        /\ Deref(a.to, a.instance)
        /\ TagLess(instanceSpace[a.to][a.instance].initialTag, a.payload.tag)
        /\ a.payload = ReadData(data, a.from, a.key)
        /\ a.payload.tag.ts >= 1

\* C31: a step in which a peer handles a Get with write = true sends one GetReply with
\* the zero payload to the sender and leaves the key stores, the instance tables and
\* every counter unchanged.
C31_WriteGetHandling ==
    [][\A m \in msgs :
          (m.type = "Get" /\ m.write /\ m \notin msgs')
          => /\ \E a \in msgs' \ msgs :
                    /\ a.type = "GetReply" /\ a.from = m.to /\ a.to = m.from
                    /\ a.instance = m.instance /\ a.write /\ a.key = m.key
                    /\ a.payload.tag = ZeroTag /\ a.payload.value = 0
             /\ Cardinality(msgs' \ msgs) = 1
             /\ UNCHANGED <<data, instanceSpace, crtInstance, crtRmwId, rmwDoneUpTo,
                            pendingRMWs, hist>>]_vars

\* A peer that stores a minted payload for the key has answered a write Get: the reply
\* in flight is empty.
C31_Witness ==
    \E a \in msgs :
        /\ a.type = "GetReply" /\ a.write
        /\ data[a.from][a.key].exists /\ data[a.from][a.key].tag.ts >= 1
        /\ a.payload.tag = ZeroTag

\* The tags of the replies collected for slot i at r when the reply m closes its Get
\* discovery, in the order of arrival.
RepliesAtClose(r, i, m) ==
    [j \in 1 .. Len(instanceSpace[r][i].receivedData) |->
        instanceSpace[r][i].receivedData[j].payload.tag] \o <<m.payload.tag>>

\* C32: the step that closes the discovery of a GET answers the client and sends no
\* Set exactly when every collected reply tag equals the first one and initialTag is
\* at most that tag; otherwise it answers nobody and sends Set messages carrying the
\* payload the coordinator stores after merging the replies.  A GET that was not
\* answered by its closing step is answered only after a SetReply was handled.
C32_ReadCompletionPaths ==
    [][/\ \A m \in msgs :
             (/\ m.type = "GetReply" /\ ~m.write /\ m \notin msgs'
              /\ Deref(m.to, m.instance)
              /\ ~instanceSpace[m.to][m.instance].lb.getDone
              /\ instanceSpace'[m.to][m.instance].lb.getDone)
             => LET r == m.to
                    i == m.instance
                    tags == RepliesAtClose(r, i, m)
                    stable == /\ \A j \in 1 .. Len(tags) : tags[j] = tags[1]
                              /\ TagLeq(instanceSpace[r][i].initialTag, tags[1])
                    sets == SecondPhase(msgs', "Set", r, i)
                IN  IF stable
                    THEN /\ hist'[r][i].replies = hist[r][i].replies + 1
                         /\ sets = {}
                    ELSE /\ hist'[r][i].replies = hist[r][i].replies
                         /\ sets # {}
                         /\ \A a \in sets : a.payload = ReadData(data', r, m.key)
       /\ \A r \in Replicas : \A i \in Slots :
             (/\ hist'[r][i].op = GET /\ hist'[r][i].replies > 0
              /\ ~hist'[r][i].optimized)
             => instanceSpace'[r][i].lb.setOKs >= 1]_vars

\* A GET whose collected replies differed was answered after its Set was acknowledged.
C32_Witness ==
    \E r \in Replicas : \E i \in Slots :
        /\ hist[r][i].op = GET /\ hist[r][i].replies > 0
        /\ ~hist[r][i].optimized /\ hist[r][i].setsSent >= 1
        /\ instanceSpace[r][i].lb.setOKs >= 1

\* C33: a coordinator instance whose discovery majority is reached and whose second
\* phase is outstanding has status PREPARED; a GET or PUT that has been answered, and
\* an RMW whose RMWSet acknowledgements reached a majority, has status COMMITTED.
C33_StatusMarkers ==
    \A o \in Proposed :
        Deref(o[1], o[2]) =>
            LET inst == instanceSpace[o[1]][o[2]]
            IN  /\ (H(o).op \in {GET, PUT} /\ inst.lb.getDone /\ H(o).replies = 0)
                       => inst.status = PREPARED
                /\ (H(o).op = RMW /\ inst.lb.rmwGetDone /\ ~RMWMajority(inst.lb.rmwSetOKs))
                       => inst.status = PREPARED
                /\ (H(o).op \in {GET, PUT} /\ H(o).replies > 0) => inst.status = COMMITTED
                /\ (H(o).op = RMW /\ RMWMajority(inst.lb.rmwSetOKs))
                       => inst.status = COMMITTED

\* C34: a step that accepts a client proposal at replica r finds the proposal inbox of
\* r on and leaves it off; the inbox goes off in no other way; and it goes back on only
\* in a step that does nothing else, the consumption of a clock tick.  So between two
\* proposals of a replica lies a tick, and a tick admits at most one proposal.
C34_ProposalGating ==
    [][\A r \in Replicas :
          /\ env'.quota[r] # env.quota[r]
             => /\ env'.quota[r] = env.quota[r] - 1
                /\ onOffProposeChan[r] /\ ~onOffProposeChan'[r]
          /\ (onOffProposeChan[r] /\ ~onOffProposeChan'[r]) => env'.quota[r] # env.quota[r]
          /\ (~onOffProposeChan[r] /\ onOffProposeChan'[r])
             => /\ \A q \in Replicas \ {r} : onOffProposeChan'[q] = onOffProposeChan[q]
                /\ UNCHANGED <<N, Alive, IsLeader, data, instanceSpace, crtInstance,
                               crtRmwId, rmwDoneUpTo, pendingRMWs, crashed, msgs, env,
                               hist>>]_vars

\* A replica has accepted a second proposal, after a tick, and with its inbox off has
\* handled a reply for it.
C34_Witness ==
    \E r \in Replicas : \E i, j \in Slots :
        /\ i < j /\ hist[r][i].proposed /\ hist[r][j].proposed
        /\ ~onOffProposeChan[r]
        /\ \/ instanceSpace[r][j].lb.getOKs >= 1
           \/ instanceSpace[r][j].lb.rmwGetOKs >= 1

\* C35: every message a step puts on the network for a slot of its sender belongs to
\* the sub-protocol of the proposal in that slot: a Get or a Set is sent only for a GET
\* or PUT proposal, an RMWGet or an RMWSet only for an RMW proposal; and the step that
\* accepts a proposal sends nothing but Get (GET, PUT) or nothing but RMWGet (RMW).
C35_OperationDispatch ==
    [][/\ \A m \in msgs' \ msgs :
            /\ m.type \in {"Get", "Set"}
               => /\ hist'[m.from][m.instance].proposed
                  /\ hist'[m.from][m.instance].op \in {GET, PUT}
            /\ m.type \in {"RMWGet", "RMWSet"}
               => /\ hist'[m.from][m.instance].proposed
                  /\ hist'[m.from][m.instance].op = RMW
       /\ \A r \in Replicas : \A i \in Slots :
            (~hist[r][i].proposed /\ hist'[r][i].proposed)
            => \A m \in msgs' \ msgs :
                  /\ m.from = r /\ m.instance = i
                  /\ m.type = IF hist'[r][i].op = RMW THEN "RMWGet" ELSE "Get"]_vars

\* A PUT has been through its Set phase and an RMW through its RMWSet phase.
C35_Witness ==
    /\ \E o \in Proposed :
          /\ H(o).op = PUT
          /\ instanceSpace[o[1]][o[2]].lb.setOKs >= 1
    /\ \E o \in Proposed :
          /\ H(o).op = RMW
          /\ instanceSpace[o[1]][o[2]].lb.rmwSetOKs >= 1

\* C36: the step that accepts a GET for key k at replica r, in slot i: when r stores
\* nothing for k, r afterwards stores (tag (0, r), value 0) for k, the instance records
\* that tag as initialTag, and every Get sent carries that payload; when r stores a
\* payload for k, initialTag is the stored tag, the store is unchanged, and every Get
\* sent carries the stored payload.
C36_GetOnUnseenKey ==
    [][\A r \in Replicas : \A i \in Slots :
          (~hist[r][i].proposed /\ hist'[r][i].proposed /\ hist'[r][i].op = GET)
          => LET k == hist'[r][i].key
                 sent == {m \in msgs' \ msgs : m.type = "Get"}
             IN  /\ \A m \in sent : m.from = r /\ m.instance = i /\ ~m.write /\ m.key = k
                 /\ ~data[r][k].exists
                    => /\ data'[r][k] = [exists |-> TRUE, tag |-> [ts |-> 0, id |-> r],
                                         value |-> 0]
                       /\ \A q \in Replicas, kk \in Keys :
                             <<q, kk>> # <<r, k>> => data'[q][kk] = data[q][kk]
                       /\ instanceSpace'[r][i].initialTag = [ts |-> 0, id |-> r]
                       /\ \A m \in sent :
                             m.payload = [tag |-> [ts |-> 0, id |-> r], value |-> 0]
                 /\ data[r][k].exists
                    => /\ data' = data
                       /\ instanceSpace'[r][i].initialTag = data[r][k].tag
                       /\ \A m \in sent :
                             m.payload = [tag |-> data[r][k].tag,
                                          value |-> data[r][k].value]]_vars

\* A GET was accepted for a key its coordinator (not replica 0) had never seen and
\* holds the installed tag, and another GET was accepted by a coordinator that stored
\* the key.
C36_Witness ==
    /\ \E o \in Proposed :
          /\ H(o).op = GET /\ H(o).fresh /\ o[1] # 0
          /\ instanceSpace[o[1]][o[2]].initialTag = [ts |-> 0, id |-> o[1]]
    /\ \E o \in Proposed : H(o).op = GET /\ ~H(o).fresh

\* C37: the ballot carried by an RMWGet or an RMWSet has the replica id of its sender
\* in its low four bits, and two such messages of different senders for the same slot
\* never carry the same ballot.
C37_UniqueBallots ==
    LET log == {m \in msgs : m.type \in {"RMWGet", "RMWSet"}}
    IN  /\ \A m \in log : m.ballot % 16 = m.from
        /\ \A m1, m2 \in log :
              (m1.from # m2.from /\ m1.instance = m2.instance) => m1.ballot # m2.ballot

\* C38: every RMWGet and every RMWSet awaiting delivery carries a ballot that is at
\* least the default ballot of its receiver and at least the ballot of the instance the
\* receiver holds in that slot, if it holds one; so no delivery takes the "outdated
\* ballot received" branch of handleRMWGet or handleRMWSet.
C38_NoStaleBallot ==
    \A m \in msgs :
        m.type \in {"RMWGet", "RMWSet"}
        => /\ m.ballot >= defaultBallot
           /\ instanceSpace[m.to][m.instance].exists
              => m.ballot >= instanceSpace[m.to][m.instance].ballot

\* An RMWSet is about to be delivered to a replica that holds an instance in that slot,
\* and an RMWGet or RMWSet has already been handled on a slot its receiver had allocated
\* for a proposal of its own.
C38_Witness ==
    /\ \E m \in msgs : m.type = "RMWSet" /\ instanceSpace[m.to][m.instance].exists
    /\ \E r \in Replicas : \E i \in Slots :
          hist[r][i].proposed /\ instanceSpace[r][i].status = ACCEPTED

\* C39: the instance in a slot a replica allocated for a client proposal records the
\* command of that proposal, and every RMWSet sent for that slot by that replica carries
\* it.
C39_OwnCommandKept ==
    \A o \in Proposed :
        LET cmd == [op |-> H(o).op, k |-> H(o).key, v |-> H(o).value]
        IN  /\ instanceSpace[o[1]][o[2]].cmds = cmd
            /\ \A m \in msgs :
                  (m.type = "RMWSet" /\ m.from = o[1] /\ m.instance = o[2]) => m.cmds = cmd

\* C40: at every replica, every index i with 0 <= i <= rmwDoneUpTo names an entry of
\* pendingRMWs that holds an instance with coordinator bookkeeping whose RMWSet
\* acknowledgements reached a majority.
C40_ExecuteWorkerSafety ==
    \A r \in Replicas : \A i \in 0 .. rmwDoneUpTo[r] :
        /\ i \in Slots
        /\ pendingRMWs[r][i] # NoSlot
        /\ Deref(r, pendingRMWs[r][i])
        /\ RMWMajority(instanceSpace[r][pendingRMWs[r][i]].lb.rmwSetOKs)

====
